---- MODULE Spec2Model ----
(***************************************************************************)
(* A model of the NextTool action dispatcher (src/src/index.ts): the       *)
(* constructor, init() and rawHandler(), with every await of rawHandler    *)
(* and init as a suspension point at which other dispatches interleave.    *)
(*                                                                         *)
(* JavaScript values are modelled as strings: Undefined stands for the     *)
(* value undefined, "0" for the number 0, "" for the empty string; every   *)
(* other string is a truthy value. Objects are functions from their own    *)
(* property names to values; an optional property that is absent is a key  *)
(* that is not in the DOMAIN.                                              *)
(***************************************************************************)
EXTENDS Integers, Sequences, FiniteSets, TLC

VARIABLES
  config,        \* this.config
  actionMap,     \* this.actionMap
  getStoreFn,    \* this.getStoreFn
  store,         \* this.store
  factoryCalls,  \* number of invocations of getStoreFn so far
  req,           \* req[d]: the request of the d-th rawHandler call
  pc,            \* pc[d]: where the d-th rawHandler call is suspended
  val,           \* val[d]: the settled result the d-th call is awaiting
  log,           \* log[d]: the calls of getStoreFn, hooks and handler made by the d-th call
  sent           \* sent[d]: what the d-th call passed to send

vars == <<config, actionMap, getStoreFn, store, factoryCalls, req, pc, val, log, sent>>

\* The number of rawHandler calls made on the dispatcher.
MaxDispatch == 2

----------------------------------------------------------------------------
(* JavaScript values *)

Undefined == "undefined"

\* !v
Falsy(v) == v \in {Undefined, "", "0"}

\* obj[key] for an optional key of an object literal
Get(obj, key) == IF key \in DOMAIN obj THEN obj[key] ELSE Undefined

\* The properties every object literal inherits from Object.prototype that the
\* model follows; obj[key] finds them when obj has no own property key.
ObjectPrototype == {"constructor", "toString"}

ToStr(n) == CASE n = 0 -> "0" [] n = 1 -> "1" [] n = 2 -> "2" [] n = 3 -> "3"
              [] n = 4 -> "4" [] n = 5 -> "5" [] n = 6 -> "6" [] OTHER -> "n"

\* The settled state of a promise: fulfilled with val, or rejected with a thrown
\* value of kind "Error" (an Error whose message is val), "string" (the string
\* val) or "undefined".
Fulfilled(v) == [settled |-> "fulfilled", val |-> v, kind |-> "none"]
Rejected(k, v) == [settled |-> "rejected", val |-> v, kind |-> k]
NoValue == Fulfilled(Undefined)

----------------------------------------------------------------------------
(* The dispatchers and requests under analysis *)

\* Handler functions (NextToolActionFn), by what they do.
Handlers ==
  [ echo   |-> [does |-> "identity"],
    greet  |-> [does |-> "wrap", name |-> "greet"],
    sum    |-> [does |-> "wrap", name |-> "h"],
    orphan |-> [does |-> "wrap", name |-> "orphan"],
    boom   |-> [does |-> "throwError", message |-> "boom"],
    fail   |-> [does |-> "throwUndefined"],
    oops   |-> [does |-> "throwString", value |-> "oops"],
    whoami |-> [does |-> "getStore"],
    pre    |-> [does |-> "wrap", name |-> "pre"],
    post   |-> [does |-> "wrap", name |-> "post"],
    toString |-> [does |-> "wrap", name |-> "toString"] ]

BeforeHook == [does |-> "wrap", name |-> "b"]
AfterHook == [does |-> "wrap", name |-> "a"]
ThrowingHook == [does |-> "throwError", message |-> "hook failed"]
RejectingHook == [does |-> "throwUndefined"]

\* config.actions: "ghost" is configured but has no handler, "orphan" and
\* "toString" have a handler but no entry, "greet" is disabled.
Actions ==
  [ echo   |-> <<>>,
    greet  |-> [disabled |-> TRUE],
    sum    |-> [before |-> BeforeHook, after |-> AfterHook],
    ghost  |-> <<>>,
    boom   |-> [after |-> AfterHook],
    fail   |-> [disabled |-> FALSE, after |-> AfterHook],
    oops   |-> <<>>,
    whoami |-> <<>>,
    pre    |-> [before |-> ThrowingHook, after |-> AfterHook],
    post   |-> [after |-> RejectingHook] ]

Configs == { [actions |-> Actions], [name |-> "no actions"] }

\* The constructor's store argument: absent, a precomputed value, or a factory.
\* The counted factory resolves to a different value at each call.
StoreArgs ==
  { [type |-> "undefined"],
    [type |-> "value", value |-> "db"],
    [type |-> "function", fn |-> "counted"],
    [type |-> "function", fn |-> "undefined"],
    [type |-> "function", fn |-> "rejects"] }

Body(a, i) == [action |-> a, input |-> i]

Requests ==
  { [headers |-> "h"],
    [headers |-> "h", body |-> [input |-> "42"]],
    [headers |-> "h", body |-> Body("", "42")],
    [headers |-> "h", body |-> Body("ghost", "1")],
    [headers |-> "h", body |-> Body("constructor", "42")],
    [headers |-> "h", body |-> Body("orphan", "1")],
    [headers |-> "h", body |-> Body("greet", "x")],
    [headers |-> "h", body |-> [action |-> "echo"]],
    [headers |-> "h", body |-> Body("sum", "1")],
    [headers |-> "h", body |-> Body("boom", "1")],
    [headers |-> "h", body |-> Body("fail", "1")],
    [headers |-> "h", body |-> Body("oops", "1")],
    [headers |-> "h", body |-> Body("whoami", "1")],
    [headers |-> "h", body |-> Body("pre", "1")],
    [headers |-> "h", body |-> Body("post", "1")],
    [headers |-> "h", body |-> Body("toString", "1")] }

----------------------------------------------------------------------------
(* Property access and calls *)

\* Whether obj[key] is truthy, for an object literal whose own values are
\* objects or functions: own properties, then those of Object.prototype.
Has(obj, key) == key \in DOMAIN obj \/ key \in ObjectPrototype

\* obj[key] when Has(obj, key): the own property, else the inherited function.
Lookup(obj, key) ==
  IF key \in DOMAIN obj THEN obj[key] ELSE [does |-> "inherited", name |-> key]

\* What a call fn(arg, request) settles to when the store holds st.
Call(fn, arg, st) ==
  CASE fn.does = "identity" -> Fulfilled(arg)
    [] fn.does = "wrap" -> Fulfilled(fn.name \o "(" \o arg \o ")")
    [] fn.does = "getStore" -> Fulfilled(st)
    [] fn.does = "throwError" -> Rejected("Error", fn.message)
    [] fn.does = "throwUndefined" -> Rejected("undefined", Undefined)
    [] fn.does = "throwString" -> Rejected("string", fn.value)
    [] fn.does = "inherited" /\ fn.name = "constructor" ->
         Fulfilled("Object(" \o arg \o ")")
    [] OTHER -> Fulfilled("[object Undefined]")

\* What the n-th call of getStoreFn settles to.
FactoryResult(fn, n) ==
  CASE fn.fn = "constant" -> Fulfilled(fn.value)
    [] fn.fn = "counted" -> Fulfilled("store#" \o ToStr(n))
    [] fn.fn = "undefined" -> Fulfilled(Undefined)
    [] OTHER -> Rejected("Error", "no store")

----------------------------------------------------------------------------
(* NextTool *)

\* constructor: getStoreFn from the store argument.
GetStoreFnOf(storeArg) ==
  IF storeArg.type # "undefined"
    THEN IF storeArg.type = "function"
           THEN storeArg
           ELSE [type |-> "function", fn |-> "constant", value |-> storeArg.value]
    ELSE [type |-> "undefined"]

getStore == store

\* init: the condition under which getStoreFn is called.
InitNeeded == Falsy(store) /\ getStoreFn.type # "undefined"

\* pagesApiHandler's send function: response.status(options?.status || 200).json(data)
json(data, options) ==
  [ status |-> IF "status" \in DOMAIN options /\ options.status # 0
                 THEN options.status ELSE 200,
    body |-> data ]

NoInit == <<>>

\* The message read from a caught value: (error as any).message
MessageOf(error) == IF error.kind = "Error" THEN error.val ELSE Undefined

\* actionConfig.disabled as a condition: an absent flag is undefined.
Disabled(actionConfig) ==
  "disabled" \in DOMAIN actionConfig /\ actionConfig.disabled

ActionOf(r) == Get(r.body, "action")

\* Variants of the definitions below, each changed the way a slip in the code
\* would change it.
NoBodyErrorNoStatus == json([error |-> "No body"], NoInit)

NoActionErrorAsUnknown ==
  json([error |-> "Unknown action \"" \o Undefined \o "\""], [status |-> 400])

InputOrDefault(r) ==
  IF Falsy(Get(r.body, "input")) THEN "{}" ELSE Get(r.body, "input")

InputOf(r) == Get(r.body, "input")

\* The responses of rawHandler's validation.
NoBodyError == json([error |-> "No body"], [status |-> 400])

NoActionError == json([error |-> "No action"], [status |-> 400])

UnknownActionError(action) ==
  json([error |-> "Unknown action \"" \o action \o "\""], [status |-> 400])

NotEnabledError(action) ==
  json([error |-> "Action \"" \o action \o "\" not enabled"], [status |-> 400])

\* rawHandler's validation: the response sent by the first check that
\* fails, as a sequence of one response, or the empty sequence when all pass.
Validate(r) ==
  IF "body" \notin DOMAIN r
    THEN << NoBodyError >>
  ELSE IF Falsy(ActionOf(r))
    THEN << NoActionError >>
  ELSE IF ~Has(actionMap, ActionOf(r))
    THEN << UnknownActionError(ActionOf(r)) >>
  ELSE IF "actions" \notin DOMAIN config
    THEN << NotEnabledError(ActionOf(r)) >>
  ELSE IF \/ ~Has(config.actions, ActionOf(r))
          \/ Disabled(Lookup(config.actions, ActionOf(r)))
    THEN << NotEnabledError(ActionOf(r)) >>
  ELSE << >>

ActionFn(d) == Lookup(actionMap, ActionOf(req[d]))
ActionConfig(d) == Lookup(config.actions, ActionOf(req[d]))

\* The d-th call invokes fn (a hook or the handler) and awaits its promise.
Invoke(d, who, fn, arg, next) ==
  /\ log' = [log EXCEPT ![d] = Append(@, [fn |-> who, arg |-> arg, store |-> getStore])]
  /\ val' = [val EXCEPT ![d] = Call(fn, arg, getStore)]
  /\ pc' = [pc EXCEPT ![d] = next]
  /\ UNCHANGED <<sent, store, factoryCalls, req, config, actionMap, getStoreFn>>

\* The d-th call returns send(body, options).
Send(d, body, options) ==
  /\ sent' = [sent EXCEPT ![d] = Append(@, json(body, options))]
  /\ val' = [val EXCEPT ![d] = NoValue]
  /\ pc' = [pc EXCEPT ![d] = "done"]
  /\ UNCHANGED <<log, store, factoryCalls, req, config, actionMap, getStoreFn>>

\* The d-th call's promise rejects: nothing is sent.
Reject(d) ==
  /\ pc' = [pc EXCEPT ![d] = "rejected"]
  /\ UNCHANGED <<val, sent, log, store, factoryCalls, req, config, actionMap, getStoreFn>>

CatchWithData(d, error) ==
  Send(d, [data |-> Undefined, error |-> MessageOf(error)], [status |-> 500])

\* The catch block: reading the message of undefined throws out of it.
Catch(d, error) ==
  IF error.kind = "undefined"
    THEN Reject(d)
    ELSE Send(d, [error |-> MessageOf(error)], [status |-> 500])

InvokeActionWithRawInput(d, input) ==
  Invoke(d, "action", ActionFn(d), Get(req[d].body, "input"), "awaitAction")

\* const res = await actionFn(before, request)
InvokeAction(d, input) == Invoke(d, "action", ActionFn(d), input, "awaitAction")

----------------------------------------------------------------------------
(* Actions *)

Init ==
  /\ config \in Configs
  /\ actionMap = Handlers
  /\ \E storeArg \in StoreArgs : getStoreFn = GetStoreFnOf(storeArg)
  /\ store = Undefined
  /\ factoryCalls = 0
  /\ req = << >>
  /\ pc = << >>
  /\ val = << >>
  /\ log = << >>
  /\ sent = << >>

\* rawHandler with init() called before the validation instead of after it.
RawHandlerInitFirst(r) ==
  /\ Len(pc) < MaxDispatch
  /\ req' = Append(req, r)
  /\ sent' = Append(sent, Validate(r))
  /\ IF InitNeeded
       THEN /\ pc' = Append(pc, IF Len(Validate(r)) > 0 THEN "done" ELSE "awaitStore")
            /\ factoryCalls' = factoryCalls + 1
            /\ val' = Append(val, FactoryResult(getStoreFn, factoryCalls + 1))
            /\ log' = Append(log, << [fn |-> "getStoreFn", arg |-> Undefined,
                                      store |-> getStore] >>)
            /\ UNCHANGED store
       ELSE /\ pc' = Append(pc, IF Len(Validate(r)) > 0 THEN "done" ELSE "awaitInit")
            /\ val' = Append(val, NoValue)
            /\ log' = Append(log, << >>)
            /\ UNCHANGED <<store, factoryCalls>>
  /\ UNCHANGED <<config, actionMap, getStoreFn>>

\* A call of rawHandler, up to its first await: validation, then init()
\* up to the call of getStoreFn.
RawHandler(r) ==
  /\ Len(pc) < MaxDispatch
  /\ req' = Append(req, r)
  /\ sent' = Append(sent, Validate(r))
  /\ IF Len(Validate(r)) > 0
       THEN /\ pc' = Append(pc, "done")
            /\ val' = Append(val, NoValue)
            /\ log' = Append(log, << >>)
            /\ UNCHANGED <<store, factoryCalls>>
       ELSE IF InitNeeded
         THEN /\ pc' = Append(pc, "awaitStore")
              /\ factoryCalls' = factoryCalls + 1
              /\ val' = Append(val, FactoryResult(getStoreFn, factoryCalls + 1))
              /\ log' = Append(log, << [fn |-> "getStoreFn", arg |-> Undefined,
                                        store |-> getStore] >>)
              /\ UNCHANGED store
         ELSE /\ pc' = Append(pc, "awaitInit")
              /\ val' = Append(val, NoValue)
              /\ log' = Append(log, << >>)
              /\ UNCHANGED <<store, factoryCalls>>
  /\ UNCHANGED <<config, actionMap, getStoreFn>>

\* init catching the rejection of getStoreFn and returning without a store.
InitResumeSwallow(d) ==
  /\ pc[d] = "awaitStore"
  /\ store' = IF val[d].settled = "rejected" THEN store ELSE val[d].val
  /\ pc' = [pc EXCEPT ![d] = "awaitInit"]
  /\ val' = [val EXCEPT ![d] = NoValue]
  /\ UNCHANGED <<factoryCalls, req, log, sent, config, actionMap, getStoreFn>>

\* init awaiting getStoreFn without assigning its result to the store.
InitResumeWithoutAssign(d) ==
  /\ pc[d] = "awaitStore"
  /\ IF val[d].settled = "rejected"
       THEN Reject(d)
       ELSE /\ pc' = [pc EXCEPT ![d] = "awaitInit"]
            /\ val' = [val EXCEPT ![d] = NoValue]
            /\ UNCHANGED <<store, factoryCalls, req, log, sent, config, actionMap, getStoreFn>>

\* init resumes when getStoreFn's promise settles: it assigns the store, or
\* rejects, and the rejection leaves rawHandler through its await.
InitResume(d) ==
  /\ pc[d] = "awaitStore"
  /\ IF val[d].settled = "rejected"
       THEN Reject(d)
       ELSE /\ store' = val[d].val
            /\ pc' = [pc EXCEPT ![d] = "awaitInit"]
            /\ val' = [val EXCEPT ![d] = NoValue]
            /\ UNCHANGED <<factoryCalls, req, log, sent, config, actionMap, getStoreFn>>

\* rawHandler reading the input from a field shared by all calls, which holds
\* the input of the latest request.
RunBeforeSharedInput(d) ==
  LET latest == req[Len(req)]
      input == IF "body" \in DOMAIN latest THEN InputOf(latest) ELSE Undefined
  IN /\ pc[d] = "awaitInit"
     /\ IF "before" \in DOMAIN ActionConfig(d)
          THEN Invoke(d, "before", ActionConfig(d).before, input, "awaitBefore")
          ELSE InvokeAction(d, input)

\* rawHandler resumes after await this.init(): the before hook if there is
\* one, else the handler with the input unchanged.
RunBefore(d) ==
  /\ pc[d] = "awaitInit"
  /\ IF "before" \in DOMAIN ActionConfig(d)
       THEN Invoke(d, "before", ActionConfig(d).before, InputOf(req[d]), "awaitBefore")
       ELSE InvokeAction(d, InputOf(req[d]))

\* rawHandler resumes after await before(): the handler with before's result.
RunAction(d) ==
  /\ pc[d] = "awaitBefore"
  /\ IF val[d].settled = "rejected"
       THEN Catch(d, val[d])
       ELSE InvokeAction(d, val[d].val)

\* rawHandler calling a handler that threw a second time before giving up.
RunAfterWithRetry(d) ==
  /\ pc[d] = "awaitAction"
  /\ IF val[d].settled = "rejected"
       THEN IF Len(SelectSeq(log[d], LAMBDA e : e.fn = "action")) < 2
              THEN InvokeAction(d, log[d][Len(log[d])].arg)
              ELSE Catch(d, val[d])
       ELSE IF "after" \in DOMAIN ActionConfig(d)
         THEN Invoke(d, "after", ActionConfig(d).after, val[d].val, "awaitAfter")
         ELSE Send(d, [data |-> val[d].val], NoInit)

\* rawHandler resumes after await actionFn(): the after hook if there is one,
\* else the success envelope.
RunAfter(d) ==
  /\ pc[d] = "awaitAction"
  /\ IF val[d].settled = "rejected"
       THEN Catch(d, val[d])
       ELSE IF "after" \in DOMAIN ActionConfig(d)
         THEN Invoke(d, "after", ActionConfig(d).after, val[d].val, "awaitAfter")
         ELSE Send(d, [data |-> val[d].val], NoInit)

\* rawHandler resumes after await after(): the success envelope.
Finish(d) ==
  /\ pc[d] = "awaitAfter"
  /\ IF val[d].settled = "rejected"
       THEN Catch(d, val[d])
       ELSE Send(d, [data |-> val[d].val], NoInit)

Dispatches == 1..Len(pc)

Next ==
  \/ \E r \in Requests : RawHandler(r)
  \/ \E d \in Dispatches : InitResume(d)
  \/ \E d \in Dispatches : RunBefore(d)
  \/ \E d \in Dispatches : RunAction(d)
  \/ \E d \in Dispatches : RunAfter(d)
  \/ \E d \in Dispatches : Finish(d)

Spec == Init /\ [][Next]_vars

----------------------------------------------------------------------------
(* Vocabulary of the properties *)

HasBody(d) == "body" \in DOMAIN req[d]

\* The d-th request names an action: its body has a non-empty action.
NamesAction(d) == HasBody(d) /\ ~Falsy(Get(req[d].body, "action"))

\* x has a handler of its own in the handler mapping.
Registered(x) == x \in DOMAIN actionMap

\* x has an entry of its own in config.actions that is not disabled.
Active(x) ==
  /\ "actions" \in DOMAIN config
  /\ x \in DOMAIN config.actions
  /\ ~Disabled(config.actions[x])

\* The d-th request names a registered and active action.
Enabled(d) ==
  /\ NamesAction(d)
  /\ Registered(req[d].body.action)
  /\ Active(req[d].body.action)

\* The hook and handler calls of the d-th dispatch, in order, and their names.
HookCalls(d) == SelectSeq(log[d], LAMBDA e : e.fn # "getStoreFn")
Names(calls) == [i \in 1..Len(calls) |-> calls[i].fn]

\* The d-th dispatch called the store factory and the factory's promise rejected.
StoreFactoryRejected(d) ==
  /\ Len(log[d]) > 0 /\ log[d][1].fn = "getStoreFn"
  /\ val[d].settled = "rejected"

IsPrefix(s, t) == Len(s) <= Len(t) /\ \A i \in 1..Len(s) : s[i] = t[i]

\* A function that returns a value computed from its argument alone.
Pure(fn) == fn.does \in {"identity", "wrap"}
Apply(fn, x) == Call(fn, x, Undefined).val

----------------------------------------------------------------------------
(* Properties *)

\* C1: a request with no body is answered { error: "No body" } with status
\* 400, at once, and its dispatch calls neither the store factory nor a hook
\* nor a handler.
C1_NoBody ==
  \A d \in Dispatches :
    ~HasBody(d) =>
      /\ pc[d] = "done"
      /\ sent[d] = << [status |-> 400, body |-> [error |-> "No body"]] >>
      /\ log[d] = << >>

C1_Witness ==
  \E d \in Dispatches : ~HasBody(d) /\ Len(sent[d]) = 1 /\ pc[d] = "done"

\* C2: a request with a body that has no action key is answered
\* { error: "No action" } with status 400, under every configuration.
C2_NoAction ==
  \A d \in Dispatches :
    (HasBody(d) /\ "action" \notin DOMAIN req[d].body) =>
      /\ pc[d] = "done"
      /\ sent[d] = << [status |-> 400, body |-> [error |-> "No action"]] >>
      /\ log[d] = << >>

C2_Witness ==
  \E d \in Dispatches :
    /\ HasBody(d) /\ "action" \notin DOMAIN req[d].body
    /\ "actions" \in DOMAIN config
    /\ Len(sent[d]) = 1

\* C3: a request naming an action x that has no registered handler is
\* answered { error: 'Unknown action "x"' } with status 400.
C3_UnknownAction ==
  \A d \in Dispatches :
    (NamesAction(d) /\ ~Registered(req[d].body.action)) =>
      /\ pc[d] = "done"
      /\ sent[d] = << [status |-> 400,
                       body |-> [error |-> "Unknown action \"" \o req[d].body.action \o "\""]] >>

\* C4: a request naming an action x that has a registered handler but is not
\* active in the configuration is answered { error: 'Action "x" not enabled' }
\* with status 400 and calls nothing; a handler is called only for a name that
\* is registered and active.
C4_NotEnabled ==
  \A d \in Dispatches :
    /\ (NamesAction(d) /\ Registered(req[d].body.action) /\ ~Active(req[d].body.action)) =>
         /\ pc[d] = "done"
         /\ sent[d] = << [status |-> 400,
                          body |-> [error |-> "Action \"" \o req[d].body.action \o "\" not enabled"]] >>
         /\ log[d] = << >>
    /\ (\E i \in 1..Len(log[d]) : log[d][i].fn = "action") => Enabled(d)

\* C5: for an enabled action with hooks before = b and after = a and handler
\* h, none of which throws, and input i: b, h and a are called at most once
\* each in the order b, h, a; when the dispatch has returned each was called
\* once, b with i, h with b(i), a with h(b(i)), and the envelope sent is
\* { data: a(h(b(i))) }. The dispatch ends without an envelope only when the
\* store factory rejected, and then it has called none of b, h, a.
C5_BeforeActionAfter ==
  \A d \in Dispatches :
    (/\ Enabled(d)
     /\ {"before", "after"} \subseteq DOMAIN config.actions[req[d].body.action]
     /\ Pure(config.actions[req[d].body.action].before)
     /\ Pure(actionMap[req[d].body.action])
     /\ Pure(config.actions[req[d].body.action].after)) =>
      LET b == config.actions[req[d].body.action].before
          h == actionMap[req[d].body.action]
          a == config.actions[req[d].body.action].after
          i == Get(req[d].body, "input")
          calls == HookCalls(d)
      IN /\ IsPrefix(Names(calls), << "before", "action", "after" >>)
         /\ pc[d] = "rejected" => (StoreFactoryRejected(d) /\ calls = << >>)
         /\ pc[d] = "done" =>
              /\ Names(calls) = << "before", "action", "after" >>
              /\ calls[1].arg = i
              /\ calls[2].arg = Apply(b, i)
              /\ calls[3].arg = Apply(h, Apply(b, i))
              /\ Len(sent[d]) = 1
              /\ sent[d][1].body = [data |-> Apply(a, Apply(h, Apply(b, i)))]

C5_Witness ==
  \E d \in Dispatches :
    /\ pc[d] = "done"
    /\ HasBody(d) /\ req[d].body = Body("sum", "1")
    /\ Names(HookCalls(d)) = << "before", "action", "after" >>
    /\ sent[d] = << [status |-> 200, body |-> [data |-> "a(h(b(1)))"]] >>

\* C6: for an enabled action whose configuration entry has no hooks and whose
\* handler does not throw, the handler is the only call, it receives the
\* request's input unchanged (a falsy input too), and the dispatch sends
\* { data: <the handler's result> } with status 200. The dispatch ends
\* without an envelope only when the store factory rejected, and then it has
\* not called the handler.
C6_NoHooks ==
  \A d \in Dispatches :
    (/\ Enabled(d)
     /\ DOMAIN config.actions[req[d].body.action] \cap {"before", "after"} = {}
     /\ actionMap[req[d].body.action].does \in {"identity", "wrap", "getStore"}) =>
      LET calls == HookCalls(d)
      IN /\ IsPrefix(Names(calls), << "action" >>)
         /\ Len(calls) = 1 => calls[1].arg = Get(req[d].body, "input")
         /\ pc[d] = "rejected" => (StoreFactoryRejected(d) /\ calls = << >>)
         /\ pc[d] = "done" =>
              /\ Len(calls) = 1
              /\ sent[d] =
                   << [status |-> 200,
                       body |-> [data |-> Call(actionMap[req[d].body.action],
                                               Get(req[d].body, "input"),
                                               calls[1].store).val]] >>

C6_Witness ==
  \E d \in Dispatches :
    /\ pc[d] = "done"
    /\ HasBody(d) /\ req[d].body = [action |-> "echo"]
    /\ Falsy(Get(req[d].body, "input"))
    /\ sent[d] = << [status |-> 200, body |-> [data |-> Undefined]] >>

\* C7: when two or more dispatches of enabled actions have started on a
\* dispatcher constructed with a counted store factory, the factory has been
\* called exactly once.
C7_FactoryCalledOnce ==
  (/\ getStoreFn.type = "function"
   /\ getStoreFn.fn = "counted"
   /\ Cardinality({d \in Dispatches : Enabled(d)}) >= 2) =>
    factoryCalls = 1

\* C8: all the hooks and handlers of all the dispatches read the same store
\* value through getStore.
C8_SameStore ==
  \A d1, d2 \in Dispatches :
    \A i \in 1..Len(log[d1]) : \A j \in 1..Len(log[d2]) :
      (log[d1][i].fn # "getStoreFn" /\ log[d2][j].fn # "getStoreFn") =>
        log[d1][i].store = log[d2][j].store

\* C9: when the handler of an enabled action has thrown, the after hook is
\* not called and the dispatch sends { error: <the thrown value's message> }
\* with status 500.
C9_HandlerThrows ==
  \A d \in Dispatches :
    (/\ Enabled(d)
     /\ \E i \in 1..Len(log[d]) : log[d][i].fn = "action"
     /\ pc[d] # "awaitAction"
     /\ Call(actionMap[req[d].body.action], "1", Undefined).settled = "rejected") =>
      /\ \A i \in 1..Len(log[d]) : log[d][i].fn # "after"
      /\ pc[d] = "done"
      /\ sent[d] =
           << [status |-> 500,
               body |-> [error |-> MessageOf(Call(actionMap[req[d].body.action],
                                                  "1", Undefined))]] >>

\* C10: a dispatch sends at most one envelope, and every envelope sent has
\* exactly one of the fields data and error, whatever value was thrown.
C10_ExactlyOneField ==
  \A d \in Dispatches :
    /\ Len(sent[d]) <= 1
    /\ pc[d] = "done" => Len(sent[d]) = 1
    /\ \A i \in 1..Len(sent[d]) :
         Cardinality(DOMAIN sent[d][i].body \cap {"data", "error"}) = 1

C10_Witness ==
  \E d \in Dispatches :
    /\ pc[d] = "done"
    /\ HasBody(d) /\ req[d].body = Body("oops", "1")
    /\ sent[d] = << [status |-> 500, body |-> [error |-> Undefined]] >>

\* The d-th dispatch called the store factory and has assigned the value the
\* factory's promise fulfilled with to the store.
Materialized(d) ==
  /\ Len(log[d]) > 0 /\ log[d][1].fn = "getStoreFn"
  /\ pc[d] # "awaitStore"
  /\ FactoryResult(getStoreFn, 1).settled = "fulfilled"

\* C11: once a dispatch has materialized the store, whatever value the
\* factory returned, no step calls the store factory again.
C11_FactoryAtMostOnce ==
  [][(\E d \in Dispatches : Materialized(d)) => factoryCalls' = factoryCalls]_vars

\* C12: a step in which a dispatch ends in a validation failure (a response
\* with status 400) leaves the store and the factory's call count unchanged,
\* and that dispatch has called neither the factory nor a hook nor a handler.
C12_ValidationNoSideEffects ==
  [][(/\ Len(pc') = Len(pc) + 1
      /\ Len(sent'[Len(pc')]) = 1
      /\ sent'[Len(pc')][1].status = 400) =>
       /\ store' = store
       /\ factoryCalls' = factoryCalls
       /\ log' = Append(log, << >>)
       /\ pc' = Append(pc, "done")]_vars

C12_Witness ==
  \E d \in Dispatches :
    /\ d > 1
    /\ Len(sent[d]) = 1 /\ sent[d][1].status = 400
    /\ log[d] = << >>
    /\ store = "store#1" /\ factoryCalls = 1

\* The error message of the earliest failure condition a request meets, in
\* the order no body, no action, unknown action, no action configuration,
\* action missing or disabled; the empty sequence when it meets none.
FirstFailure(r) ==
  IF "body" \notin DOMAIN r THEN << "No body" >>
  ELSE IF Falsy(Get(r.body, "action")) THEN << "No action" >>
  ELSE IF ~Registered(r.body.action)
    THEN << "Unknown action \"" \o r.body.action \o "\"" >>
  ELSE IF ~Active(r.body.action)
    THEN << "Action \"" \o r.body.action \o "\" not enabled" >>
  ELSE << >>

\* C13: a request that meets a validation failure condition is answered, with
\* status 400, by the error of the earliest condition it meets; an action
\* that is both unregistered and not enabled gets "Unknown action".
C13_FirstFailureWins ==
  \A d \in Dispatches :
    Len(FirstFailure(req[d])) > 0 =>
      /\ pc[d] = "done"
      /\ sent[d] = << [status |-> 400, body |-> [error |-> FirstFailure(req[d])[1]]] >>

\* The number of handler calls of the d-th dispatch.
ActionCount(d) == Len(SelectSeq(log[d], LAMBDA e : e.fn = "action"))

\* The d-th dispatch has ended: it returned what send returned, or rejected.
Ended(d) == pc[d] \in {"done", "rejected"}

\* The d-th dispatch ended because its call of the store factory rejected.
FactoryFailed(d) ==
  /\ pc[d] = "rejected"
  /\ Len(log[d]) = 1 /\ log[d][1].fn = "getStoreFn"
  /\ val[d].settled = "rejected"

\* C14 as stated: a dispatch that has returned either called the handler
\* exactly once, or sent an error envelope without having called anything.
C14_HandlerOrEarlyError ==
  \A d \in Dispatches :
    pc[d] = "done" =>
      \/ ActionCount(d) = 1
      \/ /\ Len(sent[d]) = 1 /\ "error" \in DOMAIN sent[d][1].body
         /\ log[d] = << >>

\* C14 as amended: a dispatch calls the handler at most once; one that ended
\* without calling it sent a status-400 error without having called
\* anything, or its store factory rejected (nothing sent, no hook called), or
\* its before hook threw (the only hook it called).
C14_AtMostOneHandlerCall ==
  \A d \in Dispatches :
    /\ ActionCount(d) <= 1
    /\ (Ended(d) /\ ActionCount(d) = 0) =>
         \/ /\ Len(sent[d]) = 1 /\ sent[d][1].status = 400
            /\ log[d] = << >>
         \/ /\ FactoryFailed(d)
            /\ sent[d] = << >>
         \/ /\ Names(HookCalls(d)) = << "before" >>
            /\ Call(ActionConfig(d).before, HookCalls(d)[1].arg,
                    HookCalls(d)[1].store).settled = "rejected"

C14_Witness ==
  \E d \in Dispatches :
    /\ pc[d] = "done"
    /\ HasBody(d) /\ req[d].body = Body("pre", "1")
    /\ ActionCount(d) = 0
    /\ Names(HookCalls(d)) = << "before" >>
    /\ sent[d] = << [status |-> 500, body |-> [error |-> "hook failed"]] >>

\* C15: once the store field holds a value assigned by a dispatch, no step
\* assigns it again or returns it to uninitialized.
C15_StoreAssignedOnce ==
  [][store # Undefined => store' = store]_vars

\* C16: on a dispatcher constructed with a store source, whenever a dispatch
\* calls a hook or the handler the store already holds a value the store
\* factory returned, and a dispatch that called the factory itself has
\* assigned its result before its first hook or handler call.
C16_InitBeforeHooks ==
  getStoreFn.type = "function" =>
    \A d \in Dispatches :
      /\ \A i \in 1..Len(HookCalls(d)) :
           \E k \in 1..factoryCalls :
             /\ FactoryResult(getStoreFn, k).settled = "fulfilled"
             /\ HookCalls(d)[i].store = FactoryResult(getStoreFn, k).val
      /\ Len(HookCalls(d)) > 0 =>
           \/ Materialized(d)
           \/ /\ Len(log[d]) = Len(HookCalls(d))
              /\ ~Falsy(HookCalls(d)[1].store)

C16_Witness ==
  \E d \in Dispatches :
    /\ getStoreFn.type = "function" /\ getStoreFn.fn = "counted"
    /\ Materialized(d)
    /\ Len(HookCalls(d)) > 0
    /\ HookCalls(d)[1].fn = "before"
    /\ HookCalls(d)[1].store = "store#1"

\* The before or after hook configured for the d-th dispatch's action throws.
HookThrows(d, which) ==
  /\ Enabled(d)
  /\ which \in DOMAIN config.actions[req[d].body.action]
  /\ Call(config.actions[req[d].body.action][which], "1", Undefined).settled = "rejected"

\* C17: when the before or the after hook of an enabled action has thrown,
\* the dispatch sends { error: <the thrown value's message> } with status 500
\* and nothing else; after a throwing before hook neither the handler nor
\* the after hook is called.
C17_HookThrows ==
  \A d \in Dispatches : \A which \in {"before", "after"} :
    (/\ HookThrows(d, which)
     /\ Len(HookCalls(d)) > 0
     /\ HookCalls(d)[Len(HookCalls(d))].fn = which
     /\ pc[d] \notin {"awaitBefore", "awaitAfter"}) =>
      /\ pc[d] = "done"
      /\ sent[d] =
           << [status |-> 500,
               body |-> [error |-> MessageOf(
                 Call(config.actions[req[d].body.action][which], "1", Undefined))]] >>
      /\ which = "before" => Names(HookCalls(d)) = << "before" >>

\* What a chain of calls settles to: g applied to the value of an earlier
\* fulfilled call, or the earlier rejection.
Then(settled, g) ==
  IF settled.settled = "fulfilled" THEN Call(g, settled.val, Undefined) ELSE settled

\* The hooks and the handler that request r names read nothing but their
\* arguments.
Deterministic(r) ==
  Len(Validate(r)) = 0 =>
    LET cfg == Lookup(config.actions, ActionOf(r))
    IN /\ Lookup(actionMap, ActionOf(r)).does # "getStore"
       /\ \A h \in {"before", "after"} \cap DOMAIN cfg : cfg[h].does # "getStore"

\* The response to request r computed from r, the handler mapping and the
\* configuration alone.
ResponseTo(r) ==
  IF Len(Validate(r)) > 0 THEN Validate(r)[1]
  ELSE LET cfg == Lookup(config.actions, ActionOf(r))
           before == IF "before" \in DOMAIN cfg
                       THEN Call(cfg.before, InputOf(r), Undefined)
                       ELSE Fulfilled(InputOf(r))
           res == Then(before, Lookup(actionMap, ActionOf(r)))
           after == IF "after" \in DOMAIN cfg THEN Then(res, cfg.after) ELSE res
       IN IF after.settled = "fulfilled"
            THEN [status |-> 200, body |-> [data |-> after.val]]
            ELSE [status |-> 500, body |-> [error |-> MessageOf(after)]]

\* C18: for hooks and handlers that are deterministic functions of their
\* arguments, what a dispatch sends is the response computed from its own
\* request, the handler mapping and the configuration, whatever the other
\* dispatches, their order and their interleaving; a dispatch sends at most
\* one response.
C18_StatelessPerCall ==
  \A d \in Dispatches :
    /\ Len(sent[d]) <= 1
    /\ (Len(sent[d]) = 1 /\ Deterministic(req[d])) => sent[d][1] = ResponseTo(req[d])
    /\ pc[d] = "done" <=> Len(sent[d]) = 1

\* Two interleaved dispatches of different enabled actions, both started
\* before the store was assigned, each got the response to its own request.
C18_Witness ==
  /\ Len(pc) = 2 /\ pc[1] = "done" /\ pc[2] = "done"
  /\ factoryCalls = 2
  /\ Enabled(1) /\ Enabled(2)
  /\ Deterministic(req[1]) /\ Deterministic(req[2])
  /\ sent[1] # sent[2]
  /\ sent[1][1].status = 200 /\ sent[2][1].status = 500

\* The store factory's promise rejects.
FactoryRejects ==
  getStoreFn.type = "function" /\ FactoryResult(getStoreFn, 1).settled = "rejected"

\* C19: with a store factory whose promise rejects, every dispatch of an
\* enabled action calls the factory, calls no hook and no handler and sends
\* nothing; once the rejection has arrived the dispatch has ended rejected;
\* the store stays undefined, and the factory has been called once for each
\* dispatch that passed the validation, those started after a failure included.
C19_FactoryFailure ==
  FactoryRejects =>
    /\ store = Undefined
    /\ factoryCalls = Cardinality({d \in Dispatches : Len(Validate(req[d])) = 0})
    /\ \A d \in Dispatches : Enabled(d) =>
         /\ Len(log[d]) = 1 /\ log[d][1].fn = "getStoreFn"
         /\ sent[d] = << >>
         /\ pc[d] \in {"awaitStore", "rejected"}
         /\ pc[d] = "rejected" => FactoryFailed(d)

\* Two dispatches of enabled actions have both ended with the factory's
\* rejection, and the factory was called for each.
C19_Witness ==
  /\ FactoryRejects
  /\ Len(pc) = 2 /\ Enabled(1) /\ Enabled(2)
  /\ FactoryFailed(1) /\ FactoryFailed(2)
  /\ factoryCalls = 2 /\ store = Undefined
  /\ sent = << << >>, << >> >>

====
